---- MODULE Spec2Model ----
(***************************************************************************)
(* PTTCrawler (src/crawler.py): the time-window query                      *)
(* (find_article_range_by_time, _get_articles_by_time_range), the          *)
(* count-based queries, the local comment filters and                      *)
(* get_articles_by_date_range, as one state machine per query.             *)
(*                                                                         *)
(* Time is measured in ticks.  A datetime is a natural number up to        *)
(* MaxDate, a day has DayLen ticks, the time of day of a datetime is its   *)
(* remainder modulo DayLen.  A date string that strptime rejects is the     *)
(* datetime BadDate.                                                       *)
(* Python's None is the integer None (for times and counts) and the index  *)
(* 0 (for start_index / end_index, which are >= 1 when set).               *)
(***************************************************************************)
EXTENDS Integers, Sequences, FiniteSets, TLC

\* ------------------------------------------------------------------ bounds
MaxIndex == 3
MaxStride == 2
MaxTod == 3
MaxDate == 4
MaxCount == 3
MaxSamples == 3
DispMaxIndex == 2
\* the local filters: articles in the input, comments under an article
MaxArticles == 2
MaxComments == 2
\* the newest index of the boards of get_articles_by_date_range
DateMaxIndex == 5
\* run_config: the tasks of a configuration, the newest index of its boards
MaxTasks == 2
RunMaxIndex == 2

\* ------------------------------------------------------- program constants
\* timedelta(minutes=10), in ticks
TenMinutes == 1
\* the sampling limit of find_article_range_by_time
SampleLimit == 1000
\* the default count of get_articles
DefaultCount == 10
\* run_task: the default count of search_comment, of search_comments_by_author
CommentDefaultCount == 50
CommentAuthorDefaultCount == 100
\* the number of indices get_articles_by_date_range scans at most
ScanCeiling == 1000

DayLen == MaxTod + 1
None == 0 - 1
BadDate == 0 - 1
\* a start_time / end_time that is not "HH:MM"
BadTime == 0 - 2
\* the keyword / author of a task that has none (task.get(...) is None)
NoKeyword == <<"None">>

Max(a, b) == IF a >= b THEN a ELSE b
Abs(x) == IF x < 0 THEN 0 - x ELSE x

Tods == 0 .. MaxTod
Dates == 0 .. MaxDate
Strides == 1 .. MaxStride

\* article_datetime.time()
TimeOf(dt) == dt % DayLen

\* ------------------------------------------------------------- the source
\* What get_post answers: a post (a dict), None (a deleted post), or an
\* exception.  A post carries its index, its date and its comments.
NoPost == [kind |-> "none", index |-> 0, date |-> BadDate, comments |-> <<>>]
Unknown == [kind |-> "unknown", index |-> 0, date |-> BadDate, comments |-> <<>>]
Failure == [kind |-> "error", index |-> 0, date |-> BadDate, comments |-> <<>>]
Post(i, d, c) == [kind |-> "post", index |-> i, date |-> d, comments |-> c]

\* The indices a query can request: the bracket may reach sample_interval
\* above the newest index.
Indices == 1 .. (MaxIndex + MaxStride)

VARIABLES
  kind,            \* the query: which PTTCrawler method is running
  start_time,      \* its start_time (a time of day, or None)
  end_time,        \* its end_time
  start_date,      \* start of get_articles_by_date_range (a datetime), None in the other queries
  end_date,        \* its end
  count,           \* its count
  keyword,         \* its keyword / author (a string, as a sequence of characters)
  sample_interval, \* sample_interval of find_article_range_by_time
  pc,              \* where the query is
  route,           \* "time" (sample, locate, dense fetch, filter) or "count"; "" before dispatch
  source,          \* the board as far as it has answered: index -> Unknown, or the answer
  newest_index,
  current_index,
  samples,         \* sequence of [index, datetime, time]
  start_index,
  end_index,
  i,               \* the loop index of the range fetch
  all_articles,
  result,          \* what the query returns
  reqs,            \* history: the get_post calls made, in order: [phase, index, got]
  lookups,         \* history: the get_newest_index calls of the query, "ok" or "error"
  tasks,           \* run_config: the tasks of the configuration file, in order
  task_pos,        \* run_config: the position of "for task in tasks" (1-based)
  run_pc,          \* where main / run_config / run_task is; "idle": the query is called directly
  attempts,        \* history: the tasks run_task was called for: [task, outcome]
  files,           \* the output files: path -> [exists, data]
  ptt_bot,         \* main: "none" (None) or "api" (the logged-in PyPtt.API)
  logouts          \* history: the number of ptt_bot.logout() calls

runvars == <<tasks, task_pos, run_pc, attempts, files, ptt_bot, logouts>>

queryvars == <<lookups, kind, start_date, end_date, start_time, end_time, count,
               keyword, sample_interval, pc, route, source, newest_index,
               current_index, samples, start_index, end_index, i, all_articles,
               result, reqs>>

vars == <<runvars, queryvars>>

\* The output files a task may name, and what a file holds.
Paths == {"out"}
NoFile == [exists |-> FALSE, data |-> <<>>]
OldFile == [exists |-> TRUE, data |-> <<Post(0, 0, <<>>)>>]

\* A method of PTTCrawler called directly, by no runner.
RunIdle ==
  /\ tasks = <<>>
  /\ task_pos = 0
  /\ run_pc = "idle"
  /\ attempts = <<>>
  /\ files = [p \in Paths |-> NoFile]
  /\ ptt_bot = "api"
  /\ logouts = 0

\* ------------------------------------------------------------ pure parts
\* Python truthiness of an optional string parameter
Truthy(x) == x # None

\* "start_h, start_m = map(int, start_time.split(':'))" succeeds
ParsesTime(t) == t # BadTime

\* variant: one time is enough for the time route
TimeRouteEither(st, et) == Truthy(st) \/ Truthy(et)
\* "if start_time and end_time" (get_articles, search_by_title, search_by_author)
TimeRoute(st, et) == Truthy(st) /\ Truthy(et)

\* datetime.strptime(date_str, '%a %b %d %H:%M:%S %Y') succeeds
Parses(date) == date # BadDate

Sample(idx, dt) == [index |-> idx, datetime |-> dt, time |-> TimeOf(dt)]

\* variant: a sample far from the start on either side stops the sampling
EarlyStopEitherSide(smp, target_start) ==
  /\ Len(smp) >= 2
  /\ LET last == smp[Len(smp)]
         prev == smp[Len(smp) - 1]
         tolerance == Max(TenMinutes, Abs(prev.datetime - last.datetime))
     IN Abs(target_start - last.time) > tolerance * 2
\* variant: the tolerance without its floor of ten minutes
EarlyStopNoFloor(smp, target_start) ==
  /\ Len(smp) >= 2
  /\ LET last == smp[Len(smp)]
         prev == smp[Len(smp) - 1]
     IN /\ last.time < target_start
        /\ Abs(target_start - last.time) > Abs(prev.datetime - last.datetime) * 2
\* The early stop of the sampling loop, evaluated right after a sample was
\* appended: samples[-1] is the new sample.
EarlyStop(smp, target_start) ==
  /\ Len(smp) >= 2
  /\ LET last == smp[Len(smp)]
         prev == smp[Len(smp) - 1]
         time_diff == prev.datetime - last.datetime
         article_time == last.time
     IN /\ article_time < target_start
        /\ LET tolerance == Max(TenMinutes, Abs(time_diff))
               time_delta == target_start - article_time
           IN Abs(time_delta) > tolerance * 2

\* The locating loop over the samples from position k on; e is end_index so
\* far (0: None).  Returns start_index (0: None) and end_index (0: None).
RECURSIVE ScanSamples(_, _, _, _, _, _)
ScanSamples(smp, k, e, target_start, target_end, stride) ==
  IF k > Len(smp) THEN [start |-> 0, end |-> e]
  ELSE LET idx == smp[k].index
           t == smp[k].time
           e2 == IF t <= target_end /\ e = 0 THEN idx + stride ELSE e
       IN IF t <= target_start
            THEN [start |-> Max(1, idx - stride), end |-> e2]
            ELSE ScanSamples(smp, k + 1, e2, target_start, target_end, stride)

\* The defaults applied after the locating loop.
\* variants: the oldest sample as the default end; the default start left unclamped
DefaultEndOldest(smp, e) == IF e = 0 THEN smp[Len(smp)].index ELSE e
DefaultStartUnclamped(smp, s, stride) ==
  IF s = 0 THEN smp[Len(smp)].index - stride ELSE s
DefaultEnd(smp, e) == IF e = 0 THEN smp[1].index ELSE e
DefaultStart(smp, s, stride) ==
  IF s = 0 THEN Max(1, smp[Len(smp)].index - stride) ELSE s

\* What find_article_range_by_time returns for >= 2 samples.
FindRange(smp, target_start, target_end, stride) ==
  LET r == ScanSamples(smp, 1, 0, target_start, target_end, stride)
  IN [start |-> DefaultStart(smp, r.start, stride), end |-> DefaultEnd(smp, r.end)]

\* variant: one sample is enough
UnresolvedOnlyEmpty(smp) == Len(smp) < 1
\* "if len(samples) < 2: return (None, None)"
Unresolved(smp) == Len(smp) < 2

\* variant: newest_index - count without the + 1
CountStartOffByOne(newest, c) == Max(1, newest - c)
\* start_index of a count-based fetch
CountStart(newest, c) == Max(1, newest - c + 1)

\* variant: a window with st > et is read as wrapping midnight
TimeOfDayWithinWrapped(article, st, et) ==
  /\ Parses(article.date)
  /\ IF st <= et
       THEN st <= TimeOf(article.date) /\ TimeOf(article.date) <= et
       ELSE st <= TimeOf(article.date) \/ TimeOf(article.date) <= et
\* variant: the end of the window is exclusive
TimeOfDayBeforeEnd(article, st, et) ==
  /\ Parses(article.date)
  /\ st <= TimeOf(article.date)
  /\ TimeOf(article.date) < et
\* The exact time filter of _get_articles_by_time_range, on one article.
TimeOfDayWithin(article, st, et) ==
  /\ Parses(article.date)
  /\ st <= TimeOf(article.date)
  /\ TimeOf(article.date) <= et

\* variant: the kept articles are collected newest first
RECURSIVE FilterByTimeReversed(_, _, _)
FilterByTimeReversed(articles, st, et) ==
  IF articles = <<>> THEN <<>>
  ELSE LET rest == FilterByTimeReversed(Tail(articles), st, et)
       IN IF TimeOfDayWithin(Head(articles), st, et)
            THEN rest \o <<Head(articles)>>
            ELSE rest

RECURSIVE FilterByTime(_, _, _)
FilterByTime(articles, st, et) ==
  IF articles = <<>> THEN <<>>
  ELSE LET rest == FilterByTime(Tail(articles), st, et)
       IN IF TimeOfDayWithin(Head(articles), st, et)
            THEN <<Head(articles)>> \o rest
            ELSE rest

\* str.lower() on the characters of the model's alphabet
Lower(ch) == IF ch = "A" THEN "a" ELSE IF ch = "B" THEN "b" ELSE ch
LowerStr(s) == [k \in 1 .. Len(s) |-> Lower(s[k])]

\* "x in y" on strings
Contains(sub, s) ==
  \E k \in 0 .. (Len(s) - Len(sub)) : SubSeq(s, k + 1, k + Len(sub)) = sub

\* variant: the content is not lowered
ContentMatchesCased(comment, kw) == Contains(LowerStr(kw), comment.content)
\* "keyword.lower() in comment_content.lower()"
ContentMatches(comment, kw) == Contains(LowerStr(kw), LowerStr(comment.content))

\* variant: the author is searched for like the keyword, with "in"
AuthorMatchesWithin(comment, author) ==
  Contains(LowerStr(author), LowerStr(comment.author))
\* "comment_author.lower() == author.lower()"
AuthorMatches(comment, author) == LowerStr(comment.author) = LowerStr(author)

\* variant: no "break" after the append
RECURSIVE ContentLoopNoBreak(_, _, _, _)
ContentLoopNoBreak(article, k, kw, matched) ==
  IF k > Len(article.comments) THEN matched
  ELSE ContentLoopNoBreak(article, k + 1, kw,
                          IF ContentMatches(article.comments[k], kw)
                            THEN Append(matched, article)
                            ELSE matched)
\* The inner loop of search_by_comment_content: the comments of one article
\* from position k on; the article is appended at the first match (break).
RECURSIVE ContentLoop(_, _, _, _)
ContentLoop(article, k, kw, matched) ==
  IF k > Len(article.comments) THEN matched
  ELSE IF ContentMatches(article.comments[k], kw)
         THEN Append(matched, article)
         ELSE ContentLoop(article, k + 1, kw, matched)

RECURSIVE SearchCommentContent(_, _, _)
SearchCommentContent(articles, kw, matched) ==
  IF articles = <<>> THEN matched
  ELSE SearchCommentContent(Tail(articles), kw,
                            ContentLoop(Head(articles), 1, kw, matched))

\* variant: no "break" after the append
RECURSIVE AuthorLoopNoBreak(_, _, _, _)
AuthorLoopNoBreak(article, k, author, matched) ==
  IF k > Len(article.comments) THEN matched
  ELSE AuthorLoopNoBreak(article, k + 1, author,
                         IF AuthorMatches(article.comments[k], author)
                           THEN Append(matched, article)
                           ELSE matched)

\* The inner loop of search_comments_by_author.
RECURSIVE AuthorLoop(_, _, _, _)
AuthorLoop(article, k, author, matched) ==
  IF k > Len(article.comments) THEN matched
  ELSE IF AuthorMatches(article.comments[k], author)
         THEN Append(matched, article)
         ELSE AuthorLoop(article, k + 1, author, matched)

RECURSIVE SearchCommentAuthor(_, _, _)
SearchCommentAuthor(articles, author, matched) ==
  IF articles = <<>> THEN matched
  ELSE SearchCommentAuthor(Tail(articles), author,
                           AuthorLoop(Head(articles), 1, author, matched))

\* The queries that filter the result of get_articles by its comments.
CommentKinds == {"search_comment", "search_comments_by_author"}
\* The queries that pass a search_list to the source.
SearchKinds == {"search_title", "search_author"}
Kinds == {"get_articles"} \cup SearchKinds \cup CommentKinds

\* The comment searches called without keyword / author: "keyword.lower()"
\* raises AttributeError at the first comment the loops reach.
FilterRaises(k, articles, kw) ==
  /\ k \in CommentKinds
  /\ kw = NoKeyword
  /\ \E n \in 1 .. Len(articles) : articles[n].comments # <<>>

\* What the query returns once its articles are fetched (and time-filtered).
Finish(k, articles, kw) ==
  IF k = "search_comment" THEN SearchCommentContent(articles, kw, <<>>)
  ELSE IF k = "search_comments_by_author" THEN SearchCommentAuthor(articles, kw, <<>>)
  ELSE articles

\* ---------------------------------------------------------- the source
\* The answers get_post may give for index idx: what the board holds there.
\* Within one query an index answers the same way each time it is asked: a
\* post, a hole (None), or an exception.  An index above the newest index
\* holds no post.  D: the dates a post may carry, C: the comment lists.
Answers(idx, D, C) ==
  IF source[idx] # Unknown THEN {source[idx]}
  ELSE {Failure, NoPost}
       \cup (IF idx > newest_index THEN {}
             ELSE {Post(idx, d, c) : d \in D \cup {BadDate}, c \in C})

\* The effect of one get_post call on the source and on the history.
Asked(phase, idx, a) ==
  /\ source' = [source EXCEPT ![idx] = a]
  /\ reqs' = Append(reqs, [phase |-> phase, index |-> idx, got |-> a.kind])

\* variant: no "if article:" test
IsNotFailure(a) == a.kind # "error"
\* "if article:" -- the call returned a post
IsPost(a) == a.kind = "post"

\* variant: a post is a sample whether or not its date parses
IsUsableSampleUnparsed(a) == IsPost(a)

\* The sampling loop appends a sample: the call returned a post and its
\* date parses.  (An exception, None and a ValueError all fall through to
\* "current_index -= sample_interval".)
IsUsableSample(a) == IsPost(a) /\ Parses(a.date)

\* "if len(samples) >= 1000: break"
ReachedLimit(smp) == Len(smp) >= SampleLimit

\* variant: the loop steps to the next lower index
NextSampleIndexByOne(idx, stride) == idx - 1
\* "current_index -= sample_interval"
NextSampleIndex(idx, stride) == idx - stride

\* -------------------------------------------------------------- actions
\* The query before its first step, with parameters from the given sets.
InitQuery(K, Windows, Cs, Keywords) ==
  /\ kind \in K
  /\ \E w \in Windows : start_time = w[1] /\ end_time = w[2]
  /\ start_date = None
  /\ end_date = None
  /\ count \in Cs
  /\ keyword \in Keywords
  /\ sample_interval \in Strides
  /\ pc = "start"
  /\ route = ""
  /\ source = [idx \in Indices |-> Unknown]
  /\ newest_index = 0
  /\ current_index = 0
  /\ samples = <<>>
  /\ start_index = 0
  /\ end_index = 0
  /\ i = 0
  /\ all_articles = <<>>
  /\ result = <<>>
  /\ reqs = <<>>
  /\ lookups = <<>>
  /\ RunIdle

\* variant: the comment searches do not pass their times on to get_articles
RouteOfTimesNotForwarded(k, st, et) ==
  IF k \notin CommentKinds /\ TimeRoute(st, et) THEN "time" ELSE "count"
\* get_articles / search_by_title / search_by_author: time-based filtering if
\* both times are given, count-based fetching otherwise.  The comment searches
\* call get_articles with their own times and count.
RouteOf(k, st, et) == IF TimeRoute(st, et) THEN "time" ELSE "count"

\* On the time route find_article_range_by_time parses the two times first,
\* outside any try.
Dispatch ==
  /\ pc = "start"
  /\ kind \in Kinds
  /\ route' = RouteOf(kind, start_time, end_time)
  /\ pc' = IF /\ RouteOf(kind, start_time, end_time) = "time"
              /\ ~(ParsesTime(start_time) /\ ParsesTime(end_time))
             THEN "raised"
             ELSE "newest"
  /\ UNCHANGED <<runvars, lookups, kind, start_date, end_date, start_time, end_time, count, keyword, sample_interval, source,
                 newest_index, current_index, samples, start_index,
                 end_index, i, all_articles, result, reqs>>

\* variant: every count-based query catches the failure
CatchesNewestFailureCount(k, r) == r = "count"
\* Whether a failing get_newest_index is caught (search_by_title and
\* search_by_author, count-based) or leaves the query as an exception.
CatchesNewestFailure(k, r) == k \in SearchKinds /\ r = "count"

\* ptt_bot.get_newest_index(...): returns n, or raises.
NewestIndex(N) ==
  /\ pc = "newest"
  /\ \/ \E n \in N :
          /\ newest_index' = n
          /\ IF route = "time"
               THEN /\ current_index' = n
                    /\ pc' = IF n > 0 THEN "sample" ELSE "locate"
                    /\ UNCHANGED <<start_index, i>>
               ELSE /\ start_index' = CountStart(n, count)
                    /\ i' = CountStart(n, count)
                    /\ pc' = IF CountStart(n, count) <= n THEN "fetch" ELSE "return"
                    /\ UNCHANGED current_index
          /\ UNCHANGED result
          /\ lookups' = Append(lookups, "ok")
     \/ /\ pc' = IF CatchesNewestFailure(kind, route) THEN "done" ELSE "raised"
        /\ result' = <<>>
        /\ UNCHANGED <<newest_index, current_index, start_index, i>>
        /\ lookups' = Append(lookups, "error")
  /\ UNCHANGED <<runvars, kind, start_date, end_date, start_time, end_time, count, keyword, sample_interval, route,
                 source, samples, end_index, all_articles, reqs>>

\* One iteration of the sampling loop "while current_index > 0".
SampleStep(D, C) ==
  /\ pc = "sample"
  /\ current_index > 0
  /\ \E a \in Answers(current_index, D, C) :
       LET isSample == IsUsableSample(a)
           smp == IF isSample THEN Append(samples, Sample(current_index, a.date))
                  ELSE samples
           stop == isSample /\ EarlyStop(smp, start_time)
           next == IF stop THEN current_index
                   ELSE NextSampleIndex(current_index, sample_interval)
           limit == ~stop /\ ReachedLimit(smp)
       IN /\ Asked("sample", current_index, a)
          /\ samples' = smp
          /\ current_index' = next
          /\ pc' = IF stop \/ limit \/ next <= 0 THEN "locate" ELSE "sample"
  /\ UNCHANGED <<runvars, lookups, kind, start_date, end_date, start_time, end_time, count, keyword, sample_interval, route,
                 newest_index, start_index, end_index, i, all_articles, result>>

\* The rest of find_article_range_by_time, and its caller's test of the
\* result: (None, None) ends the query with [], a range starts the fetch.
Locate ==
  /\ pc = "locate"
  /\ IF Unresolved(samples)
       THEN /\ start_index' = 0
            /\ end_index' = 0
            /\ i' = i
            /\ result' = Finish(kind, <<>>, keyword)
            /\ pc' = "done"
       ELSE LET r == FindRange(samples, start_time, end_time, sample_interval)
            IN /\ start_index' = r.start
               /\ end_index' = r.end
               /\ i' = r.start
               /\ result' = result
               /\ pc' = IF r.start <= r.end THEN "fetch" ELSE "return"
  /\ UNCHANGED <<runvars, lookups, kind, start_date, end_date, start_time, end_time, count, keyword, sample_interval, route,
                 source, newest_index, current_index, samples,
                 all_articles, reqs>>

\* The last index of the range fetch: range(start_index, end_index + 1) on
\* the time route, range(start_index, newest_index + 1) on the count route.
LastIndex == IF route = "time" THEN end_index ELSE newest_index

\* variant: a failed index is asked again
FetchAdvanceRetry(idx, a) == IF a.kind = "error" THEN idx ELSE idx + 1
\* The index after idx in "for i in range(...)", whatever get_post answered
\* for idx (an exception is caught and followed by "continue").
FetchAdvance(idx, a) == idx + 1

\* One iteration of the range fetch "for i in range(...)".
FetchStep(D, C) ==
  /\ pc = "fetch"
  /\ i <= LastIndex
  /\ \E a \in Answers(i, D, C) :
       /\ Asked("fetch", i, a)
       /\ all_articles' = IF IsPost(a) THEN Append(all_articles, a) ELSE all_articles
       /\ i' = FetchAdvance(i, a)
       /\ pc' = IF FetchAdvance(i, a) <= LastIndex THEN "fetch" ELSE "return"
  /\ UNCHANGED <<runvars, lookups, kind, start_date, end_date, start_time, end_time, count, keyword, sample_interval, route,
                 newest_index, current_index, samples, start_index, end_index, result>>

\* After the range fetch: the exact time filter on the time route, then the
\* comment filter of the comment searches.
ReturnArticles ==
  /\ pc = "return"
  /\ LET filtered == IF route = "time"
                       THEN FilterByTime(all_articles, start_time, end_time)
                       ELSE all_articles
     IN IF FilterRaises(kind, filtered, keyword)
          THEN /\ result' = result
               /\ pc' = "raised"
          ELSE /\ result' = Finish(kind, filtered, keyword)
               /\ pc' = "done"
  /\ UNCHANGED <<runvars, lookups, kind, start_date, end_date, start_time, end_time, count, keyword, sample_interval, route,
                 source, newest_index, current_index, samples, start_index,
                 end_index, i, all_articles, reqs>>

\* ------------------------------------------------- get_articles on a board
NoComments == {<<>>}
TimeWindows == Tods \X Tods
Counts == (0 - 1) .. MaxCount

Init ==
  \/ InitQuery({"get_articles"}, TimeWindows, {DefaultCount}, {<<>>})
  \/ InitQuery({"get_articles"}, {<<None, None>>}, Counts, {<<>>})

Next ==
  \/ Dispatch
  \/ NewestIndex(0 .. MaxIndex)
  \/ SampleStep(Dates, NoComments)
  \/ Locate
  \/ FetchStep(Dates, NoComments)
  \/ ReturnArticles

Spec == Init /\ [][Next]_vars

\* ------------------------------------- the five queries on a small board
DispTimes == {None, 0, MaxTod}
DispWindows == DispTimes \X DispTimes
DispDates == {0, MaxTod}
DispComments == {<<>>, <<[author |-> <<"A", "b">>, content |-> <<"a", "B">>]>>}
DispKeywords == {<<"a">>, <<"A", "B">>}

InitDispatch == InitQuery(Kinds, DispWindows, Counts, DispKeywords)

NextDispatch ==
  \/ Dispatch
  \/ NewestIndex(0 .. DispMaxIndex)
  \/ SampleStep(DispDates, DispComments)
  \/ Locate
  \/ FetchStep(DispDates, DispComments)
  \/ ReturnArticles

SpecDispatch == InitDispatch /\ [][NextDispatch]_vars

\* ------------------------- the locating loop on arbitrary sample sequences
\* The sample sequences of length 2 .. MaxSamples with indices strictly
\* descending and >= 1 and arbitrary times.
RECURSIVE SampleSeqs(_, _)
SampleSeqs(n, below) ==
  IF n = 0 THEN {<<>>}
  ELSE UNION {{<<[index |-> idx, datetime |-> t, time |-> t]>> \o rest :
                 t \in Tods, rest \in SampleSeqs(n - 1, idx)} :
              idx \in 1 .. (below - 1)}

InitLocate ==
  /\ kind = "get_articles"
  /\ start_time \in Tods
  /\ end_time \in Tods
  /\ start_date = None
  /\ end_date = None
  /\ count = DefaultCount
  /\ keyword = <<>>
  /\ sample_interval \in Strides
  /\ pc = "locate"
  /\ route = "time"
  /\ source = [idx \in Indices |-> Unknown]
  /\ \E n \in 2 .. MaxSamples :
       /\ samples \in SampleSeqs(n, MaxIndex + 1)
       /\ Len(samples) = n
  /\ newest_index = samples[1].index
  /\ current_index = 0
  /\ start_index = 0
  /\ end_index = 0
  /\ i = 0
  /\ all_articles = <<>>
  /\ result = <<>>
  /\ reqs = <<>>
  /\ lookups = <<>>
  /\ RunIdle

SpecLocate == InitLocate /\ [][Locate]_vars

\* ------------------------------ find_article_range_by_time up to its return
\* Three boards: the small board of Spec; a board of 50 entries sampled with
\* the default interval of find_article_range_by_time; a board where every
\* index up to SampleLimit + 1 holds a post of the same time, on which the
\* sampling with interval 1 meets the limit of 1000 samples.
DefaultInterval == 100
ScenarioIndices == 1 .. 50
LimitIndices == 1 .. (SampleLimit + 1)

InitSampling ==
  /\ kind = "get_articles"
  /\ start_date = None
  /\ end_date = None
  /\ count = DefaultCount
  /\ keyword = <<>>
  /\ pc = "start"
  /\ route = ""
  /\ \/ /\ \E w \in TimeWindows : start_time = w[1] /\ end_time = w[2]
        /\ sample_interval \in Strides
        /\ source = [idx \in Indices |-> Unknown]
     \/ /\ \E w \in TimeWindows : start_time = w[1] /\ end_time = w[2]
        /\ sample_interval = DefaultInterval
        /\ source = [idx \in ScenarioIndices |-> Unknown]
     \/ /\ start_time = 0
        /\ end_time = 0
        /\ sample_interval \in Strides
        /\ source = [idx \in LimitIndices |-> Post(idx, 0, <<>>)]
  /\ newest_index = 0
  /\ current_index = 0
  /\ samples = <<>>
  /\ start_index = 0
  /\ end_index = 0
  /\ i = 0
  /\ all_articles = <<>>
  /\ result = <<>>
  /\ reqs = <<>>
  /\ lookups = <<>>
  /\ RunIdle

\* The newest index of the board at hand.
SamplingSizes ==
  IF DOMAIN source = LimitIndices THEN {SampleLimit, SampleLimit + 1}
  ELSE IF DOMAIN source = ScenarioIndices THEN {50}
  ELSE 0 .. MaxIndex

NextSampling ==
  \/ Dispatch
  \/ NewestIndex(SamplingSizes)
  \/ SampleStep(Dates, NoComments)
  \/ Locate

SpecSampling == InitSampling /\ [][NextSampling]_vars

\* --------------------------------------------------- the local filters
\* The filters of _get_articles_by_time_range, search_by_comment_content and
\* search_comments_by_author on the articles a range fetch returned: the
\* posts of the indices 1 .. n, n <= MaxArticles.  The characters "hao",
\* "wen", "tui", "wu", "guan" stand for characters without a lower case.
FilterComments ==
  {[author |-> <<"A", "b">>, content |-> <<"hao", "wen", "tui">>],
   [author |-> <<"a">>, content |-> <<"wu", "guan", "B">>]}
FilterKeywords == {<<"a">>, <<"b">>, <<"a", "B">>, <<"tui">>}
CommentLists == UNION {[1 .. n -> FilterComments] : n \in 0 .. MaxComments}

\* the input sequences: timed posts without comments, or posts with comments
TimedInputs ==
  UNION {{[k \in 1 .. n |-> Post(k, f[k], <<>>)] :
            f \in [1 .. n -> Dates \cup {BadDate}]} : n \in 0 .. MaxArticles}
CommentedInputs ==
  UNION {{[k \in 1 .. n |-> Post(k, 0, f[k])] :
            f \in [1 .. n -> CommentLists]} : n \in 0 .. MaxArticles}

InitFilter ==
  /\ \/ /\ kind = "get_articles"
        /\ route = "time"
        /\ \E w \in TimeWindows : start_time = w[1] /\ end_time = w[2]
        /\ keyword = <<>>
        /\ all_articles \in TimedInputs
     \/ /\ kind \in CommentKinds
        /\ route = "count"
        /\ start_time = None
        /\ end_time = None
        /\ keyword \in FilterKeywords
        /\ all_articles \in CommentedInputs
  /\ start_date = None
  /\ end_date = None
  /\ count = DefaultCount
  /\ sample_interval = DefaultInterval
  /\ pc = "return"
  /\ source = [idx \in Indices |->
                 IF idx <= Len(all_articles) THEN all_articles[idx] ELSE Unknown]
  /\ newest_index = Len(all_articles)
  /\ current_index = 0
  /\ samples = <<>>
  /\ start_index = 1
  /\ end_index = Len(all_articles)
  /\ i = Len(all_articles) + 1
  /\ result = <<>>
  /\ reqs = <<>>
  /\ lookups = <<>>
  /\ RunIdle

\* The same filter called on what it returned.
Reapply ==
  /\ pc = "done"
  /\ all_articles' = result
  /\ result' = Finish(kind,
                      IF route = "time"
                        THEN FilterByTime(result, start_time, end_time)
                        ELSE result,
                      keyword)
  /\ pc' = "again"
  /\ UNCHANGED <<runvars, lookups, kind, start_date, end_date, start_time, end_time, count, keyword, sample_interval, route,
                 source, newest_index, current_index, samples, start_index,
                 end_index, i, reqs>>

NextFilter ==
  \/ ReturnArticles
  \/ Reapply

SpecFilter == InitFilter /\ [][NextFilter]_vars

\* ------------------------------------------- get_articles_by_date_range
\* datetime.strptime(date, '%Y-%m-%d'): the first tick of the day
Midnight(day) == day * DayLen
Days == 0 .. (MaxDate \div DayLen)

\* the stop of "range(newest_index, max(1, newest_index - 1000), -1)", which
\* the loop does not reach
ScanStop(newest) == Max(1, newest - ScanCeiling)

\* variant: the range runs to the end of the day end_date
InDateRangeEndOfDay(d, s, e) == s <= d /\ d < e + DayLen
\* variant: the end of the range is exclusive
InDateRangeBeforeEnd(d, s, e) == s <= d /\ d < e
\* "start <= article_date <= end"
InDateRange(d, s, e) == s <= d /\ d <= e

\* variant: a date that does not parse counts as older than start
StopsScanUnparsed(a, s, e) ==
  IsPost(a) /\ ~(Parses(a.date) /\ InDateRange(a.date, s, e)) /\ a.date < s
\* "elif article_date < start: break", reached by a post whose date parses
StopsScan(a, s, e) ==
  IsPost(a) /\ Parses(a.date) /\ ~InDateRange(a.date, s, e) /\ a.date < s

\* The query before its first step, with start_date and end_date from Ds.
InitDateQuery(Ds) ==
  /\ kind = "get_articles_by_date"
  /\ start_date \in Ds
  /\ end_date \in Ds
  /\ start_time = None
  /\ end_time = None
  /\ count = DefaultCount
  /\ keyword = <<>>
  /\ sample_interval = DefaultInterval
  /\ pc = "start"
  /\ route = ""
  /\ source = [idx \in Indices |-> Unknown]
  /\ newest_index = 0
  /\ current_index = 0
  /\ samples = <<>>
  /\ start_index = 0
  /\ end_index = 0
  /\ i = 0
  /\ all_articles = <<>>
  /\ result = <<>>
  /\ reqs = <<>>
  /\ lookups = <<>>
  /\ RunIdle

InitDate == InitDateQuery({Midnight(d) : d \in Days})

\* The two strptime calls on start_date and end_date, outside any try.
DateStart ==
  /\ pc = "start"
  /\ kind = "get_articles_by_date"
  /\ route' = "date"
  /\ pc' = IF Parses(start_date) /\ Parses(end_date) THEN "date_newest" ELSE "raised"
  /\ UNCHANGED <<runvars, lookups, kind, start_date, end_date, start_time, end_time, count, keyword, sample_interval, source,
                 newest_index, current_index, samples, start_index,
                 end_index, i, all_articles, result, reqs>>

\* ptt_bot.get_newest_index(...), outside any try: returns n, or raises.
DateNewestIndex(N) ==
  /\ pc = "date_newest"
  /\ \/ \E n \in N :
          /\ newest_index' = n
          /\ i' = n
          /\ pc' = IF n > ScanStop(n) THEN "scan" ELSE "done"
          /\ lookups' = Append(lookups, "ok")
     \/ /\ pc' = "raised"
        /\ UNCHANGED <<newest_index, i>>
        /\ lookups' = Append(lookups, "error")
  /\ UNCHANGED <<runvars, kind, start_date, end_date, start_time, end_time, count, keyword, sample_interval, route,
                 source, current_index, samples, start_index, end_index,
                 all_articles, result, reqs>>

\* One iteration of "for i in range(newest_index, max(1, newest_index - 1000),
\* -1)"; result is matched_articles.
ScanStep(D) ==
  /\ pc = "scan"
  /\ i > ScanStop(newest_index)
  /\ \E a \in Answers(i, D, NoComments) :
       LET within == IsPost(a) /\ Parses(a.date)
                       /\ InDateRange(a.date, start_date, end_date)
           break == StopsScan(a, start_date, end_date)
       IN /\ Asked("scan", i, a)
          /\ result' = IF within THEN Append(result, a) ELSE result
          /\ i' = IF break THEN i ELSE i - 1
          /\ pc' = IF break \/ i - 1 <= ScanStop(newest_index) THEN "done" ELSE "scan"
  /\ UNCHANGED <<runvars, lookups, kind, start_date, end_date, start_time, end_time, count, keyword, sample_interval, route,
                 newest_index, current_index, samples, start_index, end_index,
                 all_articles>>

NextDate ==
  \/ DateStart
  \/ DateNewestIndex(0 .. DateMaxIndex)
  \/ ScanStep(Dates)

SpecDate == InitDate /\ [][NextDate]_vars

\* ------------------------------------- every query, with bad parameters
QueryTimes == {None, BadTime, 0, MaxTod}
QueryWindows == QueryTimes \X QueryTimes

InitQueries ==
  \/ InitQuery(Kinds, QueryWindows, {DefaultCount}, {<<"a">>})
  \/ InitQuery(CommentKinds, QueryWindows, {DefaultCount}, {NoKeyword})
  \/ InitDateQuery({BadDate} \cup {Midnight(d) : d \in Days})

NextQueries ==
  \/ Dispatch
  \/ NewestIndex(0 .. DispMaxIndex)
  \/ SampleStep(DispDates, DispComments)
  \/ Locate
  \/ FetchStep(DispDates, DispComments)
  \/ ReturnArticles
  \/ DateStart
  \/ DateNewestIndex(0 .. MaxIndex)
  \/ ScanStep(DispDates)

SpecQueries == InitQueries /\ [][NextQueries]_vars

\* --------------------------------------- main, run_config and run_task
\* "no output" of a task: task.get('output') is None
NoPath == ""

\* A task of the configuration file; a key the task does not have is None.
Task(type, st, et, kw, out) ==
  [type |-> type, start_time |-> st, end_time |-> et, count |-> None,
   keyword |-> kw, start_date |-> None, end_date |-> None, index |-> None,
   output |-> out]
DateTask(sd, ed, out) ==
  [Task("get_articles_by_date", None, None, NoKeyword, out)
     EXCEPT !.start_date = sd, !.end_date = ed]
ArticleTask(idx, out) ==
  [Task("get_article", None, None, NoKeyword, out) EXCEPT !.index = idx]

\* The task types run_task has a branch for.
TaskTypes == Kinds \cup {"get_article", "get_articles_by_date"}

\* task.get('count', default): 10, but 50 for search_comment and 100 for
\* search_comments_by_author.
TaskCount(t) ==
  IF t.count # None THEN t.count
  ELSE IF t.type = "search_comment" THEN CommentDefaultCount
  ELSE IF t.type = "search_comments_by_author" THEN CommentAuthorDefaultCount
  ELSE DefaultCount

\* The tasks of the configurations of several tasks: two count-based
\* queries, one that raises on its start date, one of an unknown type.
RunTasks ==
  {Task("get_articles", None, None, NoKeyword, "out"),
   Task("search_title", None, None, <<"a">>, "out"),
   DateTask(BadDate, Midnight(0), "out"),
   Task("no_such_type", None, None, NoKeyword, "out")}

\* The tasks of the configurations of one task: every type, with both
\* times, one time or none, and a comment search without its keyword.
RunWindows == {<<None, None>>, <<0, MaxTod>>, <<0, None>>}
AllTasks ==
  {Task(k, w[1], w[2], <<"a">>, out) :
     k \in Kinds, w \in RunWindows, out \in {NoPath} \cup Paths}
  \cup {DateTask(Midnight(0), Midnight(1), out) : out \in {NoPath} \cup Paths}
  \cup {ArticleTask(1, out) : out \in {NoPath} \cup Paths}
  \cup {Task("search_comment", None, None, NoKeyword, "out")}

RECURSIVE TaskLists(_)
TaskLists(n) ==
  IF n = 0 THEN {<<>>}
  ELSE TaskLists(n - 1)
       \cup {Append(ts, t) : ts \in {l \in TaskLists(n - 1) : Len(l) = n - 1},
                             t \in RunTasks}

RunDates == {0}
RunComments == {<<[author |-> <<"a">>, content |-> <<"a">>]>>}

\* main is entered: nobody is logged in, no query has been called.
InitRun ==
  /\ tasks \in TaskLists(MaxTasks) \cup {<<t>> : t \in AllTasks}
  /\ task_pos = 0
  /\ run_pc = "login"
  /\ attempts = <<>>
  /\ files \in [Paths -> {NoFile, OldFile}]
  /\ ptt_bot = "none"
  /\ logouts = 0
  /\ kind = ""
  /\ start_time = None
  /\ end_time = None
  /\ start_date = None
  /\ end_date = None
  /\ count = 0
  /\ keyword = NoKeyword
  /\ sample_interval = DefaultInterval
  /\ pc = "idle"
  /\ route = ""
  /\ source = [idx \in Indices |-> Unknown]
  /\ newest_index = 0
  /\ current_index = 0
  /\ samples = <<>>
  /\ start_index = 0
  /\ end_index = 0
  /\ i = 0
  /\ all_articles = <<>>
  /\ result = <<>>
  /\ reqs = <<>>
  /\ lookups = <<>>

\* main: ptt_bot = login_with_credentials(), inside the try.  A failure
\* (credentials file missing, LoginError, ...) is caught by an except clause
\* and leaves ptt_bot None.
MainLogin ==
  /\ run_pc = "login"
  /\ \/ ptt_bot' = "api" /\ run_pc' = "load"
     \/ ptt_bot' = "none" /\ run_pc' = "except"
  /\ UNCHANGED <<tasks, task_pos, attempts, files, logouts, queryvars>>

\* run_config: open and json.load the configuration file, take its tasks.
\* A missing file (FileNotFoundError) or any other exception leaves
\* run_config and is caught by main.
LoadConfig ==
  /\ run_pc = "load"
  /\ \/ task_pos' = 1 /\ run_pc' = "loop"
     \/ task_pos' = task_pos /\ run_pc' = "except"
  /\ UNCHANGED <<tasks, attempts, files, ptt_bot, logouts, queryvars>>

\* variant: run_task is not called in a try, a failing task ends the loop
NextTaskStopOnFailure(pos, failed, n) == IF failed THEN n + 1 ELSE pos + 1
\* "for task in tasks", the call in try / except Exception / continue: the
\* position after a task, failed or not.
NextTask(pos, failed, n) == pos + 1

\* run_config calls run_task for the next task; run_task up to the call of
\* the crawler's method.  An unknown type prints a message and returns.  A
\* time window is passed on only "if start_time and end_time"; no task
\* passes a sample_interval.
RunTaskBegin ==
  /\ run_pc = "loop"
  /\ task_pos <= Len(tasks)
  /\ LET t == tasks[task_pos] IN
       IF t.type \notin TaskTypes
         THEN /\ attempts' = Append(attempts, [task |-> task_pos, outcome |-> "unknown"])
              /\ task_pos' = NextTask(task_pos, FALSE, Len(tasks))
              /\ run_pc' = "loop"
              /\ UNCHANGED queryvars
         ELSE /\ attempts' = Append(attempts, [task |-> task_pos, outcome |-> "running"])
              /\ task_pos' = task_pos
              /\ run_pc' = "task"
              /\ kind' = t.type
              /\ start_time' = IF TimeRoute(t.start_time, t.end_time) THEN t.start_time ELSE None
              /\ end_time' = IF TimeRoute(t.start_time, t.end_time) THEN t.end_time ELSE None
              /\ start_date' = t.start_date
              /\ end_date' = t.end_date
              /\ count' = TaskCount(t)
              /\ keyword' = t.keyword
              /\ sample_interval' = DefaultInterval
              /\ pc' = "start"
              /\ route' = ""
              /\ source' = [idx \in Indices |-> Unknown]
              /\ newest_index' = 0
              /\ current_index' = 0
              /\ samples' = <<>>
              /\ start_index' = 0
              /\ end_index' = 0
              /\ i' = IF t.type = "get_article" THEN t.index ELSE 0
              /\ all_articles' = <<>>
              /\ result' = <<>>
              /\ reqs' = <<>>
              /\ lookups' = <<>>
  /\ UNCHANGED <<tasks, files, ptt_bot, logouts>>

\* get_article_by_index: one get_post call; an exception gives None, and
\* run_task keeps the article "if article".
GetArticle(D, C) ==
  /\ pc = "start"
  /\ kind = "get_article"
  /\ \E a \in {Failure, NoPost} \cup {Post(i, d, c) : d \in D, c \in C} :
       /\ Asked("get", i, a)
       /\ result' = IF IsPost(a) THEN <<a>> ELSE <<>>
  /\ pc' = "done"
  /\ UNCHANGED <<runvars, lookups, kind, start_date, end_date, start_time,
                 end_time, count, keyword, sample_interval, route,
                 newest_index, current_index, samples, start_index,
                 end_index, i, all_articles>>

\* variant: the file is written whenever an output path is configured
WritesOutputAlways(out, results) == out # NoPath
\* "if output_file and results": a path is configured and the list is not empty
WritesOutput(out, results) == out # NoPath /\ results # <<>>

\* save_to_json: open(output_file, 'w') and json.dump -- the file holds the
\* results, whatever it held before.
save_to_json(data, output_file) ==
  [files EXCEPT ![output_file] = [exists |-> TRUE, data |-> data]]

\* The outcome of the last attempt.
Recorded(outcome) ==
  [attempts EXCEPT ![Len(attempts)] = [task |-> task_pos, outcome |-> outcome]]

\* The crawler's method has returned or raised: the rest of run_task, and
\* run_config's except clause for a task that raised.
RunTaskEnd ==
  /\ run_pc = "task"
  /\ pc \in {"done", "raised"}
  /\ IF pc = "raised"
       THEN /\ attempts' = Recorded("failed")
            /\ files' = files
       ELSE /\ attempts' = Recorded("ok")
            /\ files' = IF WritesOutput(tasks[task_pos].output, result)
                          THEN save_to_json(result, tasks[task_pos].output)
                          ELSE files
  /\ task_pos' = NextTask(task_pos, pc = "raised", Len(tasks))
  /\ run_pc' = "loop"
  /\ UNCHANGED <<tasks, ptt_bot, logouts, queryvars>>

\* run_config after the loop: "ALL TASKS COMPLETED", and the return to main.
AllCompleted ==
  /\ run_pc = "loop"
  /\ task_pos > Len(tasks)
  /\ run_pc' = "completed"
  /\ UNCHANGED <<tasks, task_pos, attempts, files, ptt_bot, logouts, queryvars>>

\* variant: logout is not called in a try, its exception leaves main
AfterLogoutUncaught(raised) == IF raised THEN "escaped" ELSE "exit"
\* "try: ptt_bot.logout() except: pass": main ends normally either way.
AfterLogout(raised) == "exit"

\* main's finally clause, after run_config returned or an except clause
\* ran: "if ptt_bot:" logout, which returns or raises.
MainFinally ==
  /\ run_pc \in {"completed", "except"}
  /\ IF ptt_bot # "none"
       THEN /\ logouts' = logouts + 1
            /\ \E raised \in BOOLEAN : run_pc' = AfterLogout(raised)
       ELSE /\ logouts' = logouts
            /\ run_pc' = "exit"
  /\ UNCHANGED <<tasks, task_pos, attempts, files, ptt_bot, queryvars>>

NextRun ==
  \/ MainLogin
  \/ LoadConfig
  \/ RunTaskBegin
  \/ Dispatch
  \/ NewestIndex(0 .. RunMaxIndex)
  \/ SampleStep(RunDates, RunComments)
  \/ Locate
  \/ FetchStep(RunDates, RunComments)
  \/ ReturnArticles
  \/ DateStart
  \/ DateNewestIndex(0 .. RunMaxIndex)
  \/ ScanStep(RunDates)
  \/ GetArticle(RunDates, RunComments)
  \/ RunTaskEnd
  \/ AllCompleted
  \/ MainFinally

SpecRun == InitRun /\ [][NextRun]_vars

\* main runs by itself, one statement after the other: a step that can be
\* taken is taken.
SpecRunFair == SpecRun /\ WF_vars(NextRun)

\* ------------------------------------------------------------- histories
SampleReqs == SelectSeq(reqs, LAMBDA r : r.phase = "sample")
FetchReqs == SelectSeq(reqs, LAMBDA r : r.phase = "fetch")
IndicesOf(rs) == [k \in 1 .. Len(rs) |-> rs[k].index]
\* the sequence a, a+1, ..., b
RangeSeq(a, b) == IF b < a THEN <<>> ELSE [k \in 1 .. (b - a + 1) |-> a + k - 1]
\* the query has a range: find_article_range_by_time returned, not (None, None)
HasRange == route = "time" /\ pc \in {"fetch", "return", "done"} /\ ~Unresolved(samples)
\* the posts the requests rs returned, in the order of the requests
RECURSIVE PostsGot(_)
PostsGot(rs) ==
  IF rs = <<>> THEN <<>>
  ELSE IF Head(rs).got = "post"
         THEN <<source[Head(rs).index]>> \o PostsGot(Tail(rs))
         ELSE PostsGot(Tail(rs))
\* the samples the sampling requests rs produced
RECURSIVE SamplesGot(_)
SamplesGot(rs) ==
  IF rs = <<>> THEN <<>>
  ELSE IF Head(rs).got = "post" /\ source[Head(rs).index].date # BadDate
         THEN <<Sample(Head(rs).index, source[Head(rs).index].date)>> \o SamplesGot(Tail(rs))
         ELSE SamplesGot(Tail(rs))

\* ------------------------------------------------------------------ C1
\* The posts seen so far have datetimes and times of day that do not
\* decrease with the index.
SeenMonotone ==
  \A a \in Indices, b \in Indices :
    (a < b /\ IsPost(source[a]) /\ IsPost(source[b])
       /\ Parses(source[a].date) /\ Parses(source[b].date))
    => /\ source[a].date <= source[b].date
       /\ TimeOf(source[a].date) <= TimeOf(source[b].date)
\* Index idx may hold a post dated d: it was seen with that date, or it was
\* not seen (not asked, or the request failed) and d fits the posts seen.
MayHold(idx, d) ==
  /\ idx <= newest_index
  /\ \/ IsPost(source[idx]) /\ source[idx].date = d
     \/ /\ source[idx] \in {Unknown, Failure}
        /\ \A j \in Indices :
             (IsPost(source[j]) /\ Parses(source[j].date)) =>
               /\ j < idx => (source[j].date <= d /\ TimeOf(source[j].date) <= TimeOf(d))
               /\ j > idx => (d <= source[j].date /\ TimeOf(d) <= TimeOf(source[j].date))
BothFromSamples ==
  LET r == ScanSamples(samples, 1, 0, start_time, end_time, sample_interval)
  IN r.start # 0 /\ r.end # 0
\* C1 (Superset): on a board whose timestamps do not decrease with the index,
\* for a window with start <= end, a bracket with both bounds taken from
\* samples contains every index whose post has its time in [start, end].
C1_Superset ==
  (HasRange /\ start_time <= end_time /\ BothFromSamples /\ SeenMonotone)
  => \A idx \in Indices, d \in Dates :
       (MayHold(idx, d) /\ start_time <= TimeOf(d) /\ TimeOf(d) <= end_time)
       => (start_index <= idx /\ idx <= end_index)

\* ------------------------------------------------------------------ C2
\* C2: for >= 2 samples (indices strictly descending, times arbitrary, any
\* window, also start > end) the bracket returned has low <= high.
C2_LowLeHigh ==
  (pc # "locate") => (Len(samples) >= 2 /\ start_index <= end_index /\ pc = "fetch")
C2_Witness ==
  /\ pc = "fetch"
  /\ start_time > end_time
  /\ samples[1].time < samples[2].time
  /\ end_index = samples[1].index

\* ------------------------------------------------------------------ C3
\* C3: every bracket returned is clamped to [1, newestIndex]:
\* 1 <= low and high <= newestIndex.
C3_Clamped == HasRange => (1 <= start_index /\ end_index <= newest_index)

\* ------------------------------------------------------------------ C4
\* the positions of the samples with time <= bound
AtOrBefore(bound) == {k \in 1 .. Len(samples) : samples[k].time <= bound}
Least(S) == CHOOSE k \in S : \A m \in S : k <= m
\* the last position the scan looks at: the first sample with time <= start
ScanEnd == IF AtOrBefore(start_time) = {} THEN Len(samples) ELSE Least(AtOrBefore(start_time))
ScannedAtOrBeforeEnd == {k \in AtOrBefore(end_time) : k <= ScanEnd}
ExpectedHigh ==
  IF ScannedAtOrBeforeEnd = {} THEN samples[1].index
  ELSE samples[Least(ScannedAtOrBeforeEnd)].index + sample_interval
ExpectedLow ==
  IF AtOrBefore(start_time) = {} THEN Max(1, samples[Len(samples)].index - sample_interval)
  ELSE Max(1, samples[Least(AtOrBefore(start_time))].index - sample_interval)
\* the scenario of the specification, in minutes of the day
ScenarioSamples ==
  <<[index |-> 1000, datetime |-> 900, time |-> 900],
    [index |-> 900, datetime |-> 870, time |-> 870],
    [index |-> 800, datetime |-> 830, time |-> 830],
    [index |-> 700, datetime |-> 780, time |-> 780]>>
\* C4: high = (index of the first scanned sample with time <= end) + stride, or
\* the newest sampled index if the scan ends without one; low = max(1, (index
\* of the first sample with time <= start) - stride), which ends the scan, or
\* max(1, oldest sampled index - stride).  The scenario gives (600, 900).
C4_Bracket ==
  /\ (pc # "locate") => (start_index = ExpectedLow /\ end_index = ExpectedHigh)
  /\ FindRange(ScenarioSamples, 780, 840, 100) = [start |-> 600, end |-> 900]
C4_Witness ==
  /\ pc = "fetch"
  /\ ScannedAtOrBeforeEnd = {}
  /\ AtOrBefore(end_time) # {}
  /\ end_index = samples[1].index
  /\ start_index = samples[1].index - sample_interval

\* ------------------------------------------------------------------ C5
\* C5: when sampling ends with fewer than 2 samples, the range is (None, None),
\* the query returns [] without raising and without a dense-fetch request.
C5_Unresolved ==
  (route = "time" /\ pc \in {"fetch", "return", "done"} /\ Len(samples) < 2)
  => /\ pc = "done"
     /\ start_index = 0
     /\ end_index = 0
     /\ result = <<>>
     /\ FetchReqs = <<>>
C5_Witness ==
  /\ pc = "done"
  /\ route = "time"
  /\ Len(samples) = 1
  /\ Len(SampleReqs) = 3
  /\ result = <<>>

\* ------------------------------------------------------------------ C6
\* C6: each of the five queries samples, locates, fetches the bracket and
\* filters by time of day when both times are given, and fetches by count
\* when none is given; on the sampling route the indices requested are those
\* of the sampling walk and of the bracket, whatever the count.
C6_Routing ==
  /\ (pc # "start" /\ Truthy(start_time) /\ Truthy(end_time)) => route = "time"
  /\ (pc # "start" /\ ~Truthy(start_time) /\ ~Truthy(end_time)) => route = "count"
  /\ route = "count" => (SampleReqs = <<>> /\ samples = <<>>)
  /\ route = "time" =>
       /\ \A k \in 1 .. Len(SampleReqs) :
            SampleReqs[k].index = newest_index - (k - 1) * sample_interval
       /\ Len(reqs) > 0 => reqs[1].phase = "sample"
       /\ HasRange =>
            /\ start_index = FindRange(samples, start_time, end_time, sample_interval).start
            /\ end_index = FindRange(samples, start_time, end_time, sample_interval).end
       /\ (HasRange /\ pc # "fetch") => IndicesOf(FetchReqs) = RangeSeq(start_index, end_index)
       /\ pc = "done" =>
            \A k \in 1 .. Len(result) :
              /\ Parses(result[k].date)
              /\ start_time <= TimeOf(result[k].date)
              /\ TimeOf(result[k].date) <= end_time
C6_Witness ==
  /\ pc = "done"
  /\ route = "time"
  /\ kind = "search_comments_by_author"
  /\ count = 0
  /\ Len(FetchReqs) >= 3
  /\ Len(result) >= 1

\* ------------------------------------------------------------------ C7
\* C7: a count-based query with count c on a board with newest index n
\* requests exactly the indices max(1, n - c + 1) .. n and returns at most c
\* entries, all from that range.
C7_CountRange ==
  (route = "count" /\ pc \in {"return", "done"})
  => /\ IndicesOf(reqs) = RangeSeq(Max(1, newest_index - count + 1), newest_index)
     /\ Len(result) <= Max(count, 0)
     /\ \A k \in 1 .. Len(result) :
          /\ Max(1, newest_index - count + 1) <= result[k].index
          /\ result[k].index <= newest_index
C7_Witness ==
  /\ pc = "done"
  /\ route = "count"
  /\ kind = "search_title"
  /\ count = 1
  /\ newest_index = 2
  /\ IndicesOf(reqs) = <<2>>
  /\ Len(result) = 1

\* ------------------------------------------------------------------ C8
\* C8: the dense fetch over [low, high] requests low, low+1, ..., high in
\* that order, once each, whatever each request answers; it can always go on
\* and it ends only after high.
C8_DenseOrder ==
  /\ (route = "time" /\ pc = "fetch") =>
       /\ start_index <= i /\ i <= end_index
       /\ IndicesOf(FetchReqs) = RangeSeq(start_index, i - 1)
       /\ ENABLED FetchStep(Dates, NoComments)
  /\ (HasRange /\ pc # "fetch") =>
       /\ IndicesOf(FetchReqs) = RangeSeq(start_index, end_index)
       /\ i = end_index + 1
C8_Witness ==
  /\ HasRange
  /\ pc = "done"
  /\ Len(FetchReqs) >= 4
  /\ FetchReqs[1].got = "post"
  /\ FetchReqs[2].got = "error"
  /\ FetchReqs[3].got = "post"
  /\ FetchReqs[4].got = "none"

\* ------------------------------------------------------------------ C9
\* C9: the entries of a range fetch (dense or count-based) are exactly the
\* posts its successful requests returned, in ascending index order; a failed
\* or missing request adds nothing and raises nothing, and no entry lies
\* outside the requested range.
C9_RangeEntries ==
  /\ all_articles = PostsGot(FetchReqs)
  /\ \A k \in 1 .. Len(all_articles) :
       /\ all_articles[k].kind = "post"
       /\ start_index <= all_articles[k].index
       /\ all_articles[k].index <= LastIndex
       /\ k > 1 => all_articles[k - 1].index < all_articles[k].index
  /\ pc = "raised" => reqs = <<>>
C9_Witness ==
  /\ pc = "done"
  /\ route = "count"
  /\ Len(FetchReqs) = 3
  /\ FetchReqs[1].got = "post"
  /\ FetchReqs[2].got = "error"
  /\ FetchReqs[3].got = "post"
  /\ Len(all_articles) = 2

\* ----------------------------------------------------------------- C10
\* the last sampling request produced a sample
LastWasSample ==
  /\ SampleReqs # <<>>
  /\ samples # <<>>
  /\ samples[Len(samples)].index = SampleReqs[Len(SampleReqs)].index
\* C10: a sampling request that fails, finds no post or finds a post with an
\* unparseable date adds no sample, is not retried and is followed by a
\* request at index - stride; it never ends the sampling.
C10_SamplingSkips ==
  route = "time" =>
    /\ \A k \in 1 .. Len(SampleReqs) :
         SampleReqs[k].index = newest_index - (k - 1) * sample_interval
    /\ samples = SamplesGot(SampleReqs)
    /\ pc = "sample" =>
         /\ current_index = newest_index - Len(SampleReqs) * sample_interval
         /\ current_index > 0
         /\ ENABLED SampleStep(Dates, NoComments)
    /\ pc \in {"locate", "fetch", "return", "done"} =>
         (current_index <= 0 \/ (LastWasSample /\ EarlyStop(samples, start_time)))
    /\ pc = "raised" => reqs = <<>>
C10_Witness ==
  /\ pc = "locate"
  /\ Len(SampleReqs) = 3
  /\ SampleReqs[1].got = "error"
  /\ SampleReqs[2].got = "post"
  /\ source[SampleReqs[2].index].date = BadDate
  /\ SampleReqs[3].got = "none"
  /\ samples = <<>>

\* ------------------------------------------------------------------- C11
Ceil(n, s) == (n + s - 1) \div s
\* the sampling loop is over
SamplingEnded == route = "time" /\ pc \in {"locate", "fetch", "return", "done"}
\* C11: for every newest index n >= 0 and stride >= 1, whatever the requests
\* answer, the sampling loop collects at most 1000 samples and issues at most
\* ceil(n / stride) requests, and while it runs fewer requests than that are
\* issued and another one can be, so it ends; with n <= stride (n = 50,
\* stride = 100) it ends after exactly one request, at a non-positive index,
\* and the range is unresolved.
C11_SamplingBounded ==
  route = "time" =>
    /\ Len(samples) <= SampleLimit
    /\ Len(SampleReqs) <= Ceil(newest_index, sample_interval)
    /\ pc = "sample" =>
         /\ current_index > 0
         /\ Len(SampleReqs) < Ceil(newest_index, sample_interval)
         /\ ENABLED SampleStep(Dates, NoComments)
    /\ (SamplingEnded /\ 0 < newest_index /\ newest_index <= sample_interval) =>
         /\ Len(SampleReqs) = 1
         /\ current_index <= 0
         /\ Unresolved(samples)

\* the scenario: 50 entries sampled every 100, the one request returned a post
C11_Witness ==
  /\ pc = "done"
  /\ newest_index = 50
  /\ sample_interval = 100
  /\ Len(SampleReqs) = 1
  /\ Len(samples) = 1
  /\ current_index = 0 - 50
  /\ result = <<>>

\* ------------------------------------------------------------------- C12
\* sample x lies before the start by more than twice the tolerance computed
\* from the consecutive samples p (the older request) and s
Beyond(x, p, s) ==
  /\ x.time < start_time
  /\ start_time - x.time > 2 * Max(TenMinutes, Abs(p.datetime - s.datetime))
\* the loop was left by the early stop: current_index still is the index of
\* the newest sample
EarlyHalted ==
  /\ SamplingEnded
  /\ samples # <<>>
  /\ current_index = samples[Len(samples)].index
\* C12 as stated: the sampling halts early exactly when the two most recent
\* samples both lie before the window start by more than the tolerance.
C12_BothBeyond ==
  route = "time" =>
    /\ EarlyHalted => Len(samples) >= 2
    /\ \A k \in 2 .. Len(samples) :
         (Beyond(samples[k - 1], samples[k - 1], samples[k])
            /\ Beyond(samples[k], samples[k - 1], samples[k]))
         <=> (k = Len(samples) /\ EarlyHalted)
\* C12, amended: the sampling halts early exactly when there are two samples
\* and the time of day of the newest one lies before the window start by more
\* than 2 * max(10 minutes, |difference of the two newest samples' datetimes|);
\* the sample before it is not tested.
C12_NewestBeyond ==
  route = "time" =>
    /\ EarlyHalted => Len(samples) >= 2
    /\ \A k \in 2 .. Len(samples) :
         Beyond(samples[k], samples[k - 1], samples[k])
         <=> (k = Len(samples) /\ EarlyHalted)

\* an early halt where the sample before the newest is not beyond the bound
C12_Witness ==
  /\ EarlyHalted
  /\ Len(samples) = 2
  /\ start_time = 3
  /\ samples[1].datetime = 1
  /\ samples[2].datetime = 0
  /\ ~Beyond(samples[1], samples[1], samples[2])

\* ------------------------------------------------------------------- C13
\* a filter has returned
Filtered == pc \in {"done", "again"}
\* C13: search_by_comment_content returns, in order, exactly the articles
\* with at least one comment whose content contains the keyword, both
\* lowered; an article without comments or without a matching comment is left
\* out.  Keyword "tui": the article commented "hao wen tui" is returned, the
\* article commented "wu guan B" only is not.
C13_ContentKept ==
  (Filtered /\ kind = "search_comment" /\ route = "count") =>
    result = SelectSeq(all_articles,
                       LAMBDA a : \E k \in 1 .. Len(a.comments) :
                         Contains(LowerStr(keyword), LowerStr(a.comments[k].content)))

C13_Witness ==
  /\ pc = "done"
  /\ kind = "search_comment"
  /\ keyword = <<"tui">>
  /\ Len(all_articles) = 2
  /\ all_articles[1].comments = <<[author |-> <<"a">>, content |-> <<"wu", "guan", "B">>]>>
  /\ all_articles[2].comments = <<[author |-> <<"a">>, content |-> <<"wu", "guan", "B">>],
                                  [author |-> <<"A", "b">>, content |-> <<"hao", "wen", "tui">>]>>
  /\ result = <<all_articles[2]>>

\* ------------------------------------------------------------------- C14
\* C14: search_comments_by_author returns, in order, exactly the articles
\* with at least one comment whose author, lowered, equals the lowered author
\* asked for as a whole string.
C14_AuthorKept ==
  (Filtered /\ kind = "search_comments_by_author" /\ route = "count") =>
    result = SelectSeq(all_articles,
                       LAMBDA a : \E k \in 1 .. Len(a.comments) :
                         LowerStr(a.comments[k].author) = LowerStr(keyword))

\* author "a" asked for: the article commented by "Ab" is left out, the
\* article commented by "Ab" and "a" is returned
C14_Witness ==
  /\ pc = "done"
  /\ kind = "search_comments_by_author"
  /\ keyword = <<"a">>
  /\ Len(all_articles) = 2
  /\ all_articles[1].comments = <<[author |-> <<"A", "b">>, content |-> <<"hao", "wen", "tui">>]>>
  /\ all_articles[2].comments = <<[author |-> <<"A", "b">>, content |-> <<"hao", "wen", "tui">>],
                                  [author |-> <<"a">>, content |-> <<"wu", "guan", "B">>]>>
  /\ result = <<all_articles[2]>>

\* ------------------------------------------------------------------- C15
\* C15: the exact time filter returns, in order, exactly the articles whose
\* date parses and whose time of day t satisfies start <= t <= end, both
\* ends included; an article whose date is empty or does not parse is left
\* out and the filter returns.
C15_TimeKept ==
  (kind = "get_articles" /\ route = "time" /\ pc \in {"return", "done", "again"}) =>
    /\ ENABLED (ReturnArticles \/ Reapply) \/ pc = "again"
    /\ Filtered =>
         result = SelectSeq(all_articles,
                            LAMBDA a : /\ a.date # BadDate
                                       /\ start_time <= a.date % DayLen
                                       /\ a.date % DayLen <= end_time)

\* a window of one tick: the article at that time of day on the next day is
\* kept, the article without a parseable date is dropped
C15_Witness ==
  /\ pc = "done"
  /\ route = "time"
  /\ start_time = 0
  /\ end_time = 0
  /\ Len(all_articles) = 2
  /\ all_articles[1].date = BadDate
  /\ all_articles[2].date = DayLen
  /\ result = <<all_articles[2]>>

\* ------------------------------------------------------------------- C19
\* a is b with some entries left out
RECURSIVE IsSubSeq(_, _)
IsSubSeq(a, b) ==
  IF a = <<>> THEN TRUE
  ELSE IF b = <<>> THEN FALSE
  ELSE IF Head(a) = Head(b) THEN IsSubSeq(Tail(a), Tail(b))
  ELSE IsSubSeq(a, Tail(b))
\* C19: what the comment-keyword, comment-author and time-of-day filters
\* return is a sub-sequence of their input: every returned entry is in the
\* input, none more often than there (an entry with several matching
\* comments is returned once), and the order is the input's.
C19_SubSequence ==
  Filtered => IsSubSeq(result, all_articles)

\* the first article has two matching comments and is returned once
C19_Witness ==
  /\ pc = "done"
  /\ kind = "search_comment"
  /\ keyword = <<"b">>
  /\ Len(all_articles) = 2
  /\ all_articles[1].comments = <<[author |-> <<"a">>, content |-> <<"wu", "guan", "B">>],
                                  [author |-> <<"a">>, content |-> <<"wu", "guan", "B">>]>>
  /\ all_articles[2].comments = <<[author |-> <<"A", "b">>, content |-> <<"hao", "wen", "tui">>]>>
  /\ result = <<all_articles[1]>>

\* ------------------------------------------------------------------- C20
\* C20: each of the three filters, called with the same parameter on what it
\* returned, returns it unchanged.
C20_Idempotent ==
  pc = "again" => result = all_articles

\* the filter dropped one of the two fetched articles, then was called again
C20_Witness ==
  /\ pc = "again"
  /\ kind = "search_comments_by_author"
  /\ Len(result) = 1
  /\ Cardinality({idx \in DOMAIN source : source[idx].kind = "post"}) = 2
  /\ Len(result[1].comments) = 2

\* ------------------------------------------------------------------- C16
ScanReqs == SelectSeq(reqs, LAMBDA r : r.phase = "scan")
\* the request returned a post whose date parses
GotDated(r) == r.got = "post" /\ source[r.index].date # BadDate
\* the scan went on after its k-th request
ScanWentOn(k) ==
  \/ k < Len(ScanReqs) /\ ScanReqs[k + 1].index = ScanReqs[k].index - 1
  \/ k = Len(ScanReqs) /\ pc = "scan" /\ i = ScanReqs[k].index - 1
\* C16: the result of get_articles_by_date_range is, in the order of the
\* requests, exactly the fetched entries whose full datetime d satisfies
\* start <= d <= end; an entry newer than end (and not older than start, as
\* with start <= end) is left out and another index is requested after it
\* unless the range of the loop is exhausted.
C16_DateKept ==
  kind = "get_articles_by_date" =>
    /\ LET sel == SelectSeq(ScanReqs,
                            LAMBDA r : /\ GotDated(r)
                                       /\ start_date <= source[r.index].date
                                       /\ source[r.index].date <= end_date)
       IN result = [k \in 1 .. Len(sel) |-> source[sel[k].index]]
    /\ \A k \in 1 .. Len(ScanReqs) :
         LET r == ScanReqs[k]
         IN (/\ GotDated(r)
             /\ source[r.index].date > end_date
             /\ source[r.index].date >= start_date
             /\ r.index - 1 > ScanStop(newest_index))
            => ScanWentOn(k)

\* the range is day 0 only: the newest entry, of day 1, is left out and the
\* scan goes on to an entry at midnight of day 0, which is returned
C16_Witness ==
  /\ pc = "done"
  /\ start_date = 0
  /\ end_date = 0
  /\ Len(ScanReqs) >= 2
  /\ GotDated(ScanReqs[1])
  /\ source[ScanReqs[1].index].date = DayLen
  /\ GotDated(ScanReqs[2])
  /\ source[ScanReqs[2].index].date = 0
  /\ result # <<>>
  /\ result[1].index = ScanReqs[2].index

\* ------------------------------------------------------------------- C17
\* the request returned a post dated before start
GotOlder(r) == GotDated(r) /\ source[r.index].date < start_date
\* C17: a fetched entry with a parseable datetime before start is the last
\* request of the scan, and neither it nor an entry at a lower index is in
\* the result; a missing entry, a failed request and a date that does not
\* parse are followed by the request of the next lower index unless the
\* range of the loop is exhausted.
C17_StopsAtOlder ==
  kind = "get_articles_by_date" =>
    \A k \in 1 .. Len(ScanReqs) :
      LET r == ScanReqs[k]
      IN /\ GotOlder(r) =>
              /\ k = Len(ScanReqs)
              /\ pc = "done"
              /\ ~ENABLED ScanStep(Dates)
              /\ \A j \in 1 .. Len(result) : result[j].index > r.index
         /\ (~GotDated(r) /\ r.index - 1 > ScanStop(newest_index)) => ScanWentOn(k)

\* an entry in the range, a missing entry, then an entry older than start
\* at index 3: indices 2 and 1 are not requested
C17_Witness ==
  /\ pc = "done"
  /\ newest_index = 5
  /\ Len(ScanReqs) = 3
  /\ GotDated(ScanReqs[1])
  /\ ScanReqs[2].got = "none"
  /\ GotOlder(ScanReqs[3])
  /\ Len(result) = 1
  /\ result[1].index = 5

\* ------------------------------------------------------------------- C18
\* C18: the scan requests newest_index, newest_index - 1, ... one at a time
\* and ends only after an entry older than start, after index 1, or after
\* 1000 indices; on a board with newest_index <= 1000 and no entry older
\* than start every index from newest_index down to 1 is requested.
C18_ScansToOne ==
  (kind = "get_articles_by_date" /\ newest_index >= 1) =>
    /\ \A k \in 1 .. Len(ScanReqs) : ScanReqs[k].index = newest_index - (k - 1)
    /\ pc = "done" =>
         \/ ScanReqs # <<>> /\ GotOlder(ScanReqs[Len(ScanReqs)])
         \/ ScanReqs # <<>> /\ ScanReqs[Len(ScanReqs)].index = 1
         \/ Len(ScanReqs) = ScanCeiling

\* ------------------------------------------------------------------- C21
\* the query has a parameter that does not parse, or lacks its keyword / author
BadParams ==
  \/ /\ kind \in Kinds
     /\ TimeRoute(start_time, end_time)
     /\ (start_time = BadTime \/ end_time = BadTime)
  \/ kind \in CommentKinds /\ keyword = NoKeyword
  \/ kind = "get_articles_by_date" /\ (start_date = BadDate \/ end_date = BadDate)
\* C21: a query with an unparseable start/end time (of a window given by
\* both times) or start/end date, or a comment search without its keyword /
\* author, fails at its first step:
\* it makes no newest-index lookup and no get_post call.
C21_FailsFast ==
  BadParams =>
    /\ lookups = <<>>
    /\ reqs = <<>>
    /\ pc \in {"start", "raised"}

\* ------------------------------------------------------------------- C27
Ascending(articles) ==
  \A j \in 1 .. (Len(articles) - 1) : articles[j].index < articles[j + 1].index
Descending(articles) ==
  \A j \in 1 .. (Len(articles) - 1) : articles[j].index > articles[j + 1].index
\* C27: the count-based and the time-window queries return their entries in
\* ascending index order, get_articles_by_date_range returns them in
\* descending index order.
C27_ResultOrder ==
  /\ kind \in Kinds => Ascending(result)
  /\ kind = "get_articles_by_date" => Descending(result)

\* the date-range query returned the entries of the indices 3 and 2
C27_Witness ==
  /\ kind = "get_articles_by_date"
  /\ pc = "done"
  /\ Len(result) = 2
  /\ result[1].index = 3
  /\ result[2].index = 2

\* ------------------------------------------------------------------- C23
\* the samples a sampling from idx on down to index <= 0 may collect
RECURSIVE Continuations(_, _)
Continuations(idx, stride) ==
  IF idx <= 0 THEN {<<>>}
  ELSE LET rest == Continuations(idx - stride, stride)
       IN rest \cup {<<Sample(idx, d)>> \o r : d \in Dates, r \in rest}
\* C23: when the early stop ended the sampling, the bracket is the bracket of
\* every sampling that went on from the next index down to index <= 0,
\* whatever it found there.
C23_EarlyStopSameBracket ==
  (EarlyHalted /\ pc \in {"fetch", "return", "done"}) =>
    \A more \in Continuations(current_index - sample_interval, sample_interval) :
      LET r == FindRange(samples \o more, start_time, end_time, sample_interval)
      IN r.start = start_index /\ r.end = end_index

\* the early stop at index 2 of a board of 3, stride 1: index 1 was left out
C23_Witness ==
  /\ EarlyHalted
  /\ pc = "fetch"
  /\ sample_interval = 1
  /\ current_index = 2
  /\ Len(samples) = 2

\* ------------------------------------------------------------------- C24
\* C24: a time-window query with start_time later than end_time returns
\* nothing, whatever the board holds and whatever it sampled and fetched.
C24_WrapEmpty ==
  (route = "time" /\ start_time > end_time /\ pc = "done") => result = <<>>

\* the window MaxTod .. 0: two samples, a bracket, a fetched post of time of
\* day MaxTod, and an empty result
C24_Witness ==
  /\ route = "time"
  /\ start_time = MaxTod
  /\ end_time = 0
  /\ pc = "done"
  /\ Len(samples) >= 2
  /\ FetchReqs # <<>>
  /\ \E j \in 1 .. Len(all_articles) : all_articles[j].date = MaxTod
  /\ result = <<>>

\* ------------------------------------------------------------------- C25
\* exactly one of start_time and end_time is given
OneSided == (start_time = None) # (end_time = None)
\* C25: a query given only one of start_time and end_time runs count-based:
\* it takes the count route, makes no sampling request and keeps no sample,
\* and returns the fetched articles without the time-of-day filter.
C25_OneSidedIsCount ==
  (kind \in Kinds /\ OneSided) =>
    /\ route \in {"", "count"}
    /\ SampleReqs = <<>>
    /\ samples = <<>>
    /\ pc = "done" => result = Finish(kind, all_articles, keyword)

\* only start_time = MaxTod given: an entry of time of day 0 is returned
C25_Witness ==
  /\ kind = "get_articles"
  /\ start_time = MaxTod
  /\ end_time = None
  /\ pc = "done"
  /\ \E j \in 1 .. Len(result) :
       result[j].date # BadDate /\ TimeOf(result[j].date) < start_time

\* ------------------------------------------------------------------- C26
\* the day of a datetime
DayOf(d) == d \div DayLen
InResult(a) == \E j \in 1 .. Len(result) : result[j] = a
\* C26 as stated: end_date is the instant 00:00:00 of its day, so a fetched
\* entry of the day end_date at a later time is not returned, while a fetched
\* entry of the day start_date is returned whatever its time.
C26_StartDayIncluded ==
  (kind = "get_articles_by_date" /\ Parses(start_date) /\ Parses(end_date)
     /\ start_date <= end_date) =>
    \A k \in 1 .. Len(ScanReqs) :
      LET r == ScanReqs[k]
          a == source[r.index]
      IN GotDated(r) =>
           /\ (DayOf(a.date) = DayOf(end_date) /\ a.date > end_date) => ~InResult(a)
           /\ DayOf(a.date) = DayOf(start_date) => InResult(a)
\* C26, amended: a fetched entry of the day end_date at a time after
\* 00:00:00 is not returned; a fetched entry of the day start_date is
\* returned whatever its time when start_date is a day before end_date; with
\* start_date = end_date only entries of exactly 00:00:00 are returned.
C26_EndIsMidnight ==
  (kind = "get_articles_by_date" /\ Parses(start_date) /\ Parses(end_date)
     /\ start_date <= end_date) =>
    \A k \in 1 .. Len(ScanReqs) :
      LET r == ScanReqs[k]
          a == source[r.index]
      IN GotDated(r) =>
           /\ (DayOf(a.date) = DayOf(end_date) /\ a.date > end_date) => ~InResult(a)
           /\ (DayOf(a.date) = DayOf(start_date) /\ start_date < end_date) => InResult(a)
           /\ (start_date = end_date /\ InResult(a)) => a.date = end_date

\* start_date = end_date = day 0: the entry of 00:00 is returned, the entry
\* of the same day at time of day MaxTod is not
C26_Witness ==
  /\ kind = "get_articles_by_date"
  /\ pc = "done"
  /\ start_date = 0
  /\ end_date = 0
  /\ Len(ScanReqs) >= 2
  /\ GotDated(ScanReqs[1])
  /\ source[ScanReqs[1].index].date = MaxTod
  /\ GotDated(ScanReqs[2])
  /\ source[ScanReqs[2].index].date = 0
  /\ result = <<source[ScanReqs[2].index]>>

\* ------------------------------------------------------------------- C22
\* The tasks run_task has been called for are the first tasks of the list,
\* each once, in list order; a task that has ended has its outcome.
AttemptedInOrder ==
  /\ \A k \in 1 .. Len(attempts) : attempts[k].task = k
  /\ run_pc = "task" => Len(attempts) = task_pos /\ task_pos <= Len(tasks)
  /\ run_pc = "loop" => Len(attempts) = task_pos - 1 /\ task_pos <= Len(tasks) + 1
  /\ run_pc = "completed" =>
       /\ Len(attempts) = Len(tasks)
       /\ \A k \in 1 .. Len(attempts) : attempts[k].outcome # "running"
\* C22: in run_config every task of the list is attempted exactly once, in
\* list order, whether or not an earlier task failed, and a run that has
\* entered the loop reaches the final "all tasks completed" step.
C22_EveryTaskOnce ==
  /\ []AttemptedInOrder
  /\ (run_pc = "loop") ~> (run_pc = "completed")
\* Both tasks of a list were attempted although the first one failed.
C22_Witness ==
  /\ run_pc = "completed"
  /\ Len(tasks) = 2
  /\ attempts[1].outcome = "failed"
  /\ attempts[2].outcome = "ok"
  /\ tasks[2].type = "get_articles"
  /\ result # <<>>

\* ------------------------------------------------------------------- C28
\* The newest-index lookup of the query has raised.
LookupFailed == lookups # <<>> /\ lookups[Len(lookups)] = "error"
\* The attempts of the tasks that called a method of the crawler.
QueryAttempts == SelectSeq(attempts, LAMBDA a : a.outcome # "unknown")
\* C28: after a failed newest-index lookup no post is fetched; the
\* count-based title and author searches end with an empty result and the
\* task is not a failure; every other query (count-based get_articles and
\* comment searches, every time-window query, the date-range query) ends
\* with the exception, and run_config records the task as failed.
C28_LookupFailure ==
  (run_pc # "idle" /\ LookupFailed) =>
    /\ reqs = <<>>
    /\ pc \in {"done", "raised"}
    /\ pc = "done" <=> (kind \in SearchKinds /\ route = "count")
    /\ pc = "done" => result = <<>>
    /\ run_pc # "task" =>
         QueryAttempts[Len(QueryAttempts)].outcome =
           (IF pc = "done" THEN "ok" ELSE "failed")
\* A title search in a time window whose lookup failed: the task failed.
C28_Witness ==
  /\ run_pc = "completed"
  /\ LookupFailed
  /\ kind = "search_title"
  /\ route = "time"
  /\ pc = "raised"
  /\ attempts[1].outcome = "failed"
\* A count-based title search whose lookup failed: empty result, no failure.
C28_WitnessCaught ==
  /\ run_pc = "completed"
  /\ LookupFailed
  /\ kind = "search_title"
  /\ route = "count"
  /\ pc = "done"
  /\ attempts[1].outcome = "ok"

\* ------------------------------------------------------------------- C29
\* The step in which run_task (or the except clause of run_config) ends the
\* task that called a method of the crawler.
TaskEnds == run_pc = "task" /\ run_pc' = "loop"
\* C29: the output file is written, with the result of the task, when the
\* task ends with an output path configured and a result that is not
\* empty, and in no other step: a task with zero results, a task that
\* fails and a task of an unknown type leave the files as they were.
C29_WritesIffResults ==
  [][ IF /\ TaskEnds
         /\ pc = "done"
         /\ tasks[task_pos].output # NoPath
         /\ result # <<>>
        THEN files' = [files EXCEPT ![tasks[task_pos].output] =
                                     [exists |-> TRUE, data |-> result]]
        ELSE files' = files ]_vars
\* The state of C29's cases: a task with an output path that ended with
\* zero results, that failed, or of an unknown type, and the old file.
LeftAlone(outcome) ==
  /\ run_pc = "completed"
  /\ Len(tasks) = 1
  /\ tasks[1].output = "out"
  /\ attempts[1].outcome = outcome
  /\ files["out"] = OldFile
\* A get_articles task with an output path found no post: the old file is
\* still there.
C29_Witness ==
  /\ LeftAlone("ok")
  /\ kind = "get_articles"
  /\ newest_index > 0
  /\ result = <<>>
\* A task wrote its result over the old file.
C29_WitnessWritten ==
  /\ run_pc = "completed"
  /\ Len(tasks) = 1
  /\ result # <<>>
  /\ files["out"] = [exists |-> TRUE, data |-> result]
  /\ files["out"] # OldFile

\* ------------------------------------------------------------------- C30
\* C30: main calls logout exactly once when the login succeeded, whether the
\* tasks completed, the configuration was not found or another exception
\* occurred, and never when the login failed; it is called in the finally
\* clause, which is always reached, and a failing logout does not leave
\* main as an exception.
C30_LogoutOnce ==
  /\ run_pc # "escaped"
  /\ run_pc = "exit" => logouts = (IF ptt_bot = "api" THEN 1 ELSE 0)
  /\ run_pc \notin {"exit", "idle"} => logouts = 0
  /\ run_pc \in {"completed", "except"} => ENABLED MainFinally
\* The configuration file was not found after a successful login: one logout.
C30_Witness ==
  /\ run_pc = "exit"
  /\ ptt_bot = "api"
  /\ task_pos = 0
  /\ logouts = 1
\* The login failed: main ends without a logout.
C30_WitnessNoLogin ==
  /\ run_pc = "exit"
  /\ ptt_bot = "none"
  /\ logouts = 0
\* The tasks completed: one logout.
C30_WitnessCompleted ==
  /\ run_pc = "exit"
  /\ attempts # <<>>
  /\ task_pos = Len(tasks) + 1
  /\ logouts = 1

====
